---- MODULE Spec2Model ----
(***************************************************************************)
(* Effort-Based Decision Task (gui.py, utils.py, main.py).                 *)
(*                                                                         *)
(* The Tk application is modelled as a state machine: the controller's     *)
(* experiment state, the frame raised on top, the handlers bound to the    *)
(* "all" bind tag, each frame's attributes and each frame's pending        *)
(* `after` callback.  One action is one Tk callback (button command, key   *)
(* handler, timer callback) run to completion.                             *)
(*                                                                         *)
(* Time: `now` is the reading of time.time() in clock units of 7 seconds    *)
(* (the length of the Easy task), so every duration of the program is a    *)
(* small number: Units(ms) converts.  An after(ms, f) callback runs at a   *)
(* clock reading at least Units(ms) after the call, and the event loop     *)
(* runs a callback that is due before the clock reading changes; key       *)
(* events and button clicks arrive at any moment, also between a deadline  *)
(* and the callback that observes it.                                      *)
(***************************************************************************)
EXTENDS Integers, Sequences, FiniteSets

\* ------------------------------------------------------------------ bounds

\* Last clock reading the model explores.
MaxTime == 2

\* Most presses counted in one calibration window.
MaxCount == 2

\* Most presses counted in one task window.
MaxClicks == 1

\* Most incomplete intake submissions (logger.warning calls) explored.
MaxWarnings == 1

\* Most key events on the tape of a calibration window.
MaxEvents == 6

\* --------------------------------------------------------------- constants

\* Milliseconds to clock units.
Units(ms) == ms \div 7000

\* Milliseconds to tenths of a second, the unit of the time stamps of key
\* events (event.time); all the times used lie within one clock unit.
Tenths(ms) == ms \div 100

\* The times at which key events may be delivered.
EventTimes == {Tenths(0), Tenths(100), Tenths(300)}

\* config.MIN_PRESS_INTERVAL of the count-on-release variant, 0.2 s; the
\* module imports no such name.
MIN_PRESS_INTERVAL == Tenths(200)

\* config.py (imported by gui.py, not part of the sources at hand): the
\* values of one configuration.
EASY_CLICKS_REQUIRED == 1

CALIBRATION_DURATION == Units(7000)

ITI_RANGE == <<Units(7000), Units(7000)>>

\* Magnitudes in cents, probabilities in percent.
PRACTICE_TRIALS ==
    << [magnitude_hard |-> 600, prob |-> 50],
       [magnitude_hard |-> 250, prob |-> 12] >>

\* duration = 7.0 if choice == 'Easy' else 21.0
EasyDuration == Units(7000)

HardDuration == Units(21000)

\* ----------------------------------------------------------------- helpers

None == "None"

Keysyms == {"Left", "Right", "space"}

\* str.lower() on the keysyms the model delivers.
Lower(keysym) ==
    CASE keysym = "Left" -> "left"
      [] keysym = "Right" -> "right"
      [] OTHER -> keysym

\* Variant of Strip: the entry text is used as typed.
Strip_unstripped(s) == s

\* str.strip() on the entry texts the model submits.
Strip(s) == IF s = " " THEN "" ELSE s

\* The pending after() callback of a frame: none, or callback `cb` with
\* argument `arg`, to run at clock reading `due` or later.
NoTimer == [cb |-> "none", arg |-> 0, due |-> 0]

After(ms, callback, a, t) == [cb |-> callback, arg |-> a, due |-> t + Units(ms)]

\* Variant of HardClicksRequired: a requirement of 0 is raised to 1.
HardClicksRequired_clamped(right, cnt) ==
    IF (8 * (right + cnt)) \div 10 = 0 THEN 1 ELSE (8 * (right + cnt)) \div 10

\* Variant of HardClicksRequired: the product rounded to nearest.
HardClicksRequired_rounded(right, cnt) == (8 * (right + cnt) + 5) \div 10

\* int((right + count) * 0.8): the double product truncated toward zero.
\* For non-negative integers below 2^50 the double nearest to n * 0.8 has
\* integer part (8 * n) \div 10.
HardClicksRequired(right, cnt) == (8 * (right + cnt)) \div 10

\* round(x, 3) of a value held in 1/10000ths, result in 1/1000ths
\* (round half to even).
Round3(x) ==
    LET q == x \div 10
        r == x % 10
    IN  IF r > 5 \/ (r = 5 /\ q % 2 = 1) THEN q + 1 ELSE q

\* The intake forms a user submits: raw widget contents.
IntakeForms ==
    { [subj |-> "S1", domain |-> "F", valence |-> "G", hand |-> "Left",  practice |-> "Y"],
      [subj |-> "",   domain |-> "F", valence |-> "G", hand |-> "Left",  practice |-> "Y"],
      [subj |-> " ",  domain |-> "M", valence |-> "L", hand |-> "Right", practice |-> "N"],
      [subj |-> "S1", domain |-> "",  valence |-> "G", hand |-> "Left",  practice |-> "Y"],
      [subj |-> "S1", domain |-> "F", valence |-> "",  hand |-> "Left",  practice |-> "Y"],
      [subj |-> "S1", domain |-> "F", valence |-> "G", hand |-> "",      practice |-> "Y"],
      [subj |-> "S1", domain |-> "F", valence |-> "G", hand |-> "Left",  practice |-> ""] }

\* --------------------------------------------------------------- variables

VARIABLES
    \* clock and Tk application
    now,                          \* time.time()
    shown,                        \* frame raised last (on top of the stack)
    bound_all,                    \* frame whose handlers are bound to tag "all"
    destroyed,                    \* controller.destroy() was called
    saves,                        \* invocations of utils.save_data
    warnings,                     \* logger.warning calls of on_next
    \* ExperimentApp
    subject, handedness, domain, valence, chose_practice_trials,
    calibration_presses_right, calibration_presses_left,
    hard_clicks_required, data, skip_calibration_countdown,
    \* InstructionsFrame
    start_btn, instr_after,
    \* CalibrationFrame
    step, count, cal_key_pressed, test_started, cal_after, left_btn, proceed_btn,
    \* PracticeTrialsFrame
    trial_index, key_pressed, current, stage, choice_time, task_start, task_end,
    clicks, choice, choice_rt, clicks_req, duration, trial_after,
    \* the key events delivered to a calibration window, with their times
    tape

appVars == <<shown, bound_all, destroyed, saves, warnings>>

intakeVars == <<subject, handedness, domain, valence, chose_practice_trials>>

ctrlVars == <<calibration_presses_right, calibration_presses_left,
              hard_clicks_required, data, skip_calibration_countdown>>

instrVars == <<start_btn, instr_after>>

calVars == <<step, count, cal_key_pressed, test_started, cal_after, left_btn, proceed_btn>>

taskVars == <<task_start, task_end, clicks, choice, choice_rt, clicks_req, duration>>

trialVars == <<trial_index, key_pressed, current, stage, choice_time, taskVars, trial_after>>

vars == <<now, tape, appVars, intakeVars, ctrlVars, instrVars, calVars, trialVars>>

\* ------------------------------------------------------------------- Init

\* ExperimentApp.__init__: the five frames are constructed in order
\* (PracticeTrialsFrame.__init__ binds its key handlers to "all" and calls
\* load_trial), then InfoEntryFrame is shown.
Init ==
    /\ now = 0
    /\ tape = << >>
    /\ shown = "InfoEntryFrame"
    /\ bound_all = "PracticeTrialsFrame"
    /\ destroyed = FALSE
    /\ saves = << >>
    /\ warnings = 0
    /\ subject = None
    /\ handedness = None
    /\ domain = "Money"
    /\ valence = "Loss"
    /\ chose_practice_trials = FALSE
    /\ calibration_presses_right = 0
    /\ calibration_presses_left = 0
    /\ hard_clicks_required = 0
    /\ data = << >>
    /\ skip_calibration_countdown = FALSE
    /\ start_btn = TRUE
    /\ instr_after = NoTimer
    /\ step = 0
    /\ count = 0
    /\ cal_key_pressed = FALSE
    /\ test_started = FALSE
    /\ cal_after = NoTimer
    /\ left_btn = FALSE
    /\ proceed_btn = FALSE
    /\ trial_index = 0
    /\ key_pressed = {}
    /\ current = PRACTICE_TRIALS[1]
    /\ stage = "choice"
    /\ choice_time = 0
    /\ task_start = None
    /\ task_end = None
    /\ clicks = None
    /\ choice = None
    /\ choice_rt = None
    /\ clicks_req = None
    /\ duration = None
    /\ trial_after = NoTimer

\* ---------------------------------------------------------- InfoEntryFrame

\* InfoEntryFrame.on_next, the command of the Next button.
on_next(form) ==
    LET subj == Strip(form.subj)
        dom == Strip(form.domain)
        val == Strip(form.valence)
        hand == Strip(form.hand)
        practice == Strip(form.practice)
    IN  /\ ~destroyed
        /\ shown = "InfoEntryFrame"
        /\ IF subj # "" /\ dom # "" /\ val # "" /\ hand # "" /\ practice # ""
           THEN /\ subject' = subj
                /\ domain' = IF dom = "F" THEN "Food" ELSE "Money"
                /\ valence' = IF val = "G" THEN "Gain" ELSE "Loss"
                /\ handedness' = hand
                /\ chose_practice_trials' = (practice = "Y")
                /\ shown' = "InstructionsFrame"
                /\ UNCHANGED warnings
           ELSE /\ warnings < MaxWarnings
                /\ warnings' = warnings + 1
                /\ UNCHANGED <<intakeVars, shown>>
        /\ UNCHANGED <<now, tape, bound_all, destroyed, saves, ctrlVars, instrVars,
                       calVars, trialVars>>

\* -------------------------------------------------------- InstructionsFrame

\* InstructionsFrame.start_countdown, the command of "Start RIGHT Arrow Test";
\* it calls _do_countdown(3).
start_countdown ==
    /\ ~destroyed
    /\ shown = "InstructionsFrame"
    /\ start_btn
    /\ start_btn' = FALSE
    /\ instr_after' = After(1000, "_do_countdown", 2, now)
    /\ UNCHANGED <<now, tape, appVars, intakeVars, ctrlVars, calVars, trialVars>>

\* InstructionsFrame._do_countdown(count), run from its after() timer.
instr_do_countdown ==
    /\ ~destroyed
    /\ instr_after.cb = "_do_countdown"
    /\ now >= instr_after.due
    /\ IF instr_after.arg > 0
       THEN /\ instr_after' = After(1000, "_do_countdown", instr_after.arg - 1, now)
            /\ UNCHANGED skip_calibration_countdown
       ELSE /\ skip_calibration_countdown' = TRUE
            /\ instr_after' = After(500, "show_frame", 0, now)
    /\ UNCHANGED <<now, tape, appVars, intakeVars, calibration_presses_right,
                   calibration_presses_left, hard_clicks_required, data,
                   start_btn, calVars, trialVars>>

\* The lambda scheduled by _do_countdown(0): controller.show_frame(CalibrationFrame),
\* i.e. CalibrationFrame.tkraise.
show_calibration ==
    /\ ~destroyed
    /\ instr_after.cb = "show_frame"
    /\ now >= instr_after.due
    /\ instr_after' = NoTimer
    /\ shown' = "CalibrationFrame"
    /\ IF ~test_started
       THEN /\ test_started' = TRUE
            /\ IF skip_calibration_countdown
               THEN /\ skip_calibration_countdown' = FALSE
                    /\ cal_after' = After(500, "start_step", 0, now)
               ELSE /\ cal_after' = After(500, "start_countdown_for_step", 0, now)
                    /\ UNCHANGED skip_calibration_countdown
       ELSE UNCHANGED <<test_started, skip_calibration_countdown, cal_after>>
    /\ UNCHANGED <<now, tape, bound_all, destroyed, saves, warnings, intakeVars,
                   calibration_presses_right, calibration_presses_left,
                   hard_clicks_required, data, start_btn,
                   step, count, cal_key_pressed, left_btn, proceed_btn, trialVars>>

\* --------------------------------------------------------- CalibrationFrame

\* CalibrationFrame.start_countdown_for_step (from its timer) and
\* CalibrationFrame._do_countdown(count).
cal_do_countdown ==
    /\ ~destroyed
    /\ cal_after.cb \in {"start_countdown_for_step", "_do_countdown"}
    /\ now >= cal_after.due
    /\ cal_after' =
         IF cal_after.cb = "start_countdown_for_step"
         THEN After(1000, "_do_countdown", 2, now)
         ELSE IF cal_after.arg > 0
              THEN After(1000, "_do_countdown", cal_after.arg - 1, now)
              ELSE After(500, "start_step", 0, now)
    /\ UNCHANGED <<now, tape, appVars, intakeVars, ctrlVars, instrVars,
                   step, count, cal_key_pressed, test_started, left_btn,
                   proceed_btn, trialVars>>

\* CalibrationFrame.start_step: binds the calibration key handlers and makes
\* the first call of _run_timer(now, now + CALIBRATION_DURATION).
start_step ==
    /\ ~destroyed
    /\ cal_after.cb = "start_step"
    /\ now >= cal_after.due
    /\ step' = step + 1
    /\ count' = 0
    /\ bound_all' = "CalibrationFrame"
    /\ cal_after' = After(50, "_run_timer", now + CALIBRATION_DURATION, now)
    /\ UNCHANGED <<now, tape, shown, destroyed, saves, warnings, intakeVars, ctrlVars,
                   instrVars, cal_key_pressed, test_started, left_btn,
                   proceed_btn, trialVars>>

\* Variant of _run_timer: the end of the left window also overwrites the
\* right count.
_run_timer_overwrites_right ==
    /\ ~destroyed
    /\ cal_after.cb = "_run_timer"
    /\ now >= cal_after.due
    /\ IF now >= cal_after.arg
       THEN /\ bound_all' = "none"
            /\ cal_after' = NoTimer
            /\ calibration_presses_right' = count
            /\ IF step = 1
               THEN /\ left_btn' = TRUE
                    /\ UNCHANGED <<calibration_presses_left, hard_clicks_required,
                                   proceed_btn>>
               ELSE /\ calibration_presses_left' = count
                    /\ hard_clicks_required' =
                           HardClicksRequired(calibration_presses_right, count)
                    /\ left_btn' = FALSE
                    /\ proceed_btn' = TRUE
       ELSE /\ cal_after' = After(50, "_run_timer", cal_after.arg, now)
            /\ UNCHANGED <<bound_all, calibration_presses_right,
                           calibration_presses_left, hard_clicks_required,
                           left_btn, proceed_btn>>
    /\ UNCHANGED <<now, tape, shown, destroyed, saves, warnings, intakeVars, data,
                   skip_calibration_countdown, instrVars, step, count,
                   cal_key_pressed, test_started, trialVars>>

\* CalibrationFrame._run_timer(start, end), run from its after() timer;
\* cal_after.arg is `end`.
_run_timer ==
    /\ ~destroyed
    /\ cal_after.cb = "_run_timer"
    /\ now >= cal_after.due
    /\ IF now >= cal_after.arg
       THEN /\ bound_all' = "none"
            /\ cal_after' = NoTimer
            /\ IF step = 1
               THEN /\ calibration_presses_right' = count
                    /\ left_btn' = TRUE
                    /\ UNCHANGED <<calibration_presses_left, hard_clicks_required,
                                   proceed_btn>>
               ELSE /\ calibration_presses_left' = count
                    /\ hard_clicks_required' =
                           HardClicksRequired(calibration_presses_right, count)
                    /\ left_btn' = FALSE
                    /\ proceed_btn' = TRUE
                    /\ UNCHANGED calibration_presses_right
       ELSE /\ cal_after' = After(50, "_run_timer", cal_after.arg, now)
            /\ UNCHANGED <<bound_all, calibration_presses_right,
                           calibration_presses_left, hard_clicks_required,
                           left_btn, proceed_btn>>
    /\ UNCHANGED <<now, tape, shown, destroyed, saves, warnings, intakeVars, data,
                   skip_calibration_countdown, instrVars, step, count,
                   cal_key_pressed, test_started, trialVars>>

\* Variant of prepare_for_left_test: the button is left in place.
prepare_for_left_test_keeps_button ==
    /\ ~destroyed
    /\ shown = "CalibrationFrame"
    /\ left_btn
    /\ cal_key_pressed' = FALSE
    /\ cal_after' = After(1000, "_do_countdown", 2, now)
    /\ UNCHANGED <<now, tape, appVars, intakeVars, ctrlVars, instrVars,
                   step, count, test_started, left_btn, proceed_btn, trialVars>>

\* CalibrationFrame.prepare_for_left_test, the command of "Start LEFT Arrow
\* Test"; it calls start_countdown_for_step, which calls _do_countdown(3).
prepare_for_left_test ==
    /\ ~destroyed
    /\ shown = "CalibrationFrame"
    /\ left_btn
    /\ left_btn' = FALSE
    /\ cal_key_pressed' = FALSE
    /\ cal_after' = After(1000, "_do_countdown", 2, now)
    /\ UNCHANGED <<now, tape, appVars, intakeVars, ctrlVars, instrVars,
                   step, count, test_started, proceed_btn, trialVars>>

\* The command of "Proceed to Practice Trials":
\* controller.show_frame(PracticeTrialsFrame).
proceed_to_practice ==
    /\ ~destroyed
    /\ shown = "CalibrationFrame"
    /\ proceed_btn
    /\ shown' = "PracticeTrialsFrame"
    /\ UNCHANGED <<now, tape, bound_all, destroyed, saves, warnings, intakeVars,
                   ctrlVars, instrVars, calVars, trialVars>>

\* Variant of cal_on_key_press: every key-down of the target key counts.
cal_on_key_press_unguarded(keysym) ==
    LET correct == IF step = 1 THEN "Right" ELSE "Left"
    IN  IF keysym = correct
        THEN /\ cal_key_pressed' = TRUE
             /\ count' = count + 1
        ELSE UNCHANGED <<cal_key_pressed, count>>

\* CalibrationFrame.on_key_press.
cal_on_key_press(keysym) ==
    LET correct == IF step = 1 THEN "Right" ELSE "Left"
    IN  IF keysym = correct /\ ~cal_key_pressed
        THEN /\ cal_key_pressed' = TRUE
             /\ count' = count + 1
        ELSE UNCHANGED <<cal_key_pressed, count>>

\* Variant of cal_on_key_release: the key-up of any key clears the mark.
cal_on_key_release_any_key(keysym) ==
    /\ cal_key_pressed' = FALSE
    /\ UNCHANGED count

\* CalibrationFrame.on_key_release.
cal_on_key_release(keysym) ==
    LET correct == IF step = 1 THEN "Right" ELSE "Left"
    IN  /\ cal_key_pressed' = IF keysym = correct THEN FALSE ELSE cal_key_pressed
        /\ UNCHANGED count

\* ------------------------------------------------------ PracticeTrialsFrame

\* Variant of TrialRow: completion needs more clicks than required.
TrialRow_strict ==
    [ subject           |-> subject,
      handedness        |-> handedness,
      trial_num         |-> trial_index + 1,
      domain            |-> domain,
      valence           |-> valence,
      magnitude_hard    |-> current.magnitude_hard,
      probability       |-> current.prob,
      EV                |-> Round3(current.magnitude_hard * current.prob),
      choice            |-> choice,
      choice_rt         |-> choice_rt,
      n_clicks_required |-> clicks_req,
      n_clicks_executed |-> clicks,
      task_complete     |-> IF clicks > clicks_req THEN 1 ELSE 0 ]

\* Variant of TrialRow: completion also needs the deadline not to have passed.
TrialRow_in_time ==
    [ subject           |-> subject,
      handedness        |-> handedness,
      trial_num         |-> trial_index + 1,
      domain            |-> domain,
      valence           |-> valence,
      magnitude_hard    |-> current.magnitude_hard,
      probability       |-> current.prob,
      EV                |-> Round3(current.magnitude_hard * current.prob),
      choice            |-> choice,
      choice_rt         |-> choice_rt,
      n_clicks_required |-> clicks_req,
      n_clicks_executed |-> clicks,
      task_complete     |-> IF clicks >= clicks_req /\ now < task_end THEN 1 ELSE 0 ]

\* Variant of TrialRow: the trial number is the 0-based index.
TrialRow_zero_based ==
    [ subject           |-> subject,
      handedness        |-> handedness,
      trial_num         |-> trial_index,
      domain            |-> domain,
      valence           |-> valence,
      magnitude_hard    |-> current.magnitude_hard,
      probability       |-> current.prob,
      EV                |-> Round3(current.magnitude_hard * current.prob),
      choice            |-> choice,
      choice_rt         |-> choice_rt,
      n_clicks_required |-> clicks_req,
      n_clicks_executed |-> clicks,
      task_complete     |-> IF clicks >= clicks_req THEN 1 ELSE 0 ]

\* The row run_task appends to controller.data, without its two wall-clock
\* columns (date, time); EV in 1/1000ths.
TrialRow ==
    [ subject           |-> subject,
      handedness        |-> handedness,
      trial_num         |-> trial_index + 1,
      domain            |-> domain,
      valence           |-> valence,
      magnitude_hard    |-> current.magnitude_hard,
      probability       |-> current.prob,
      EV                |-> Round3(current.magnitude_hard * current.prob),
      choice            |-> choice,
      choice_rt         |-> choice_rt,
      n_clicks_required |-> clicks_req,
      n_clicks_executed |-> clicks,
      task_complete     |-> IF clicks >= clicks_req THEN 1 ELSE 0 ]

\* Variant of TaskOver: only the count ends the task.
TaskOver_count_only == clicks >= clicks_req

\* Variant of TaskOver: the count has to exceed the requirement.
TaskOver_strict == now >= task_end \/ clicks > clicks_req

\* Variant of TaskOver: only the deadline ends the task.
TaskOver_deadline_only == now >= task_end

\* The termination test of run_task:
\* now >= self.task_end or self.clicks >= self.clicks_req.
TaskOver == now >= task_end \/ clicks >= clicks_req

\* Variant of load_trial: the block is taken as finished one trial early.
load_trial_early(idx) ==
    IF idx >= Len(PRACTICE_TRIALS) - 1
    THEN /\ saves' = Append(saves, [subject |-> subject, domain |-> domain,
                                    valence |-> valence, data |-> data])
         /\ \E written \in BOOLEAN :
                shown' = IF written THEN "EndFrame" ELSE shown
         /\ UNCHANGED <<current, stage, choice_time>>
    ELSE /\ current' = PRACTICE_TRIALS[idx + 1]
         /\ stage' = "choice"
         /\ choice_time' = now
         /\ UNCHANGED <<saves, shown>>

\* PracticeTrialsFrame.load_trial with trial index idx; utils.save_data either
\* writes the file or raises (I/O error), and then show_frame(EndFrame) is
\* not reached.
load_trial(idx) ==
    IF idx >= Len(PRACTICE_TRIALS)
    THEN /\ saves' = Append(saves, [subject |-> subject, domain |-> domain,
                                    valence |-> valence, data |-> data])
         /\ \E written \in BOOLEAN :
                shown' = IF written THEN "EndFrame" ELSE shown
         /\ UNCHANGED <<current, stage, choice_time>>
    ELSE /\ current' = PRACTICE_TRIALS[idx + 1]
         /\ stage' = "choice"
         /\ choice_time' = now
         /\ UNCHANGED <<saves, shown>>

\* PracticeTrialsFrame.on_key_press.
trial_on_key_press(keysym) ==
    LET key == Lower(keysym)
    IN  IF stage = "choice" /\ key \in {"left", "right"} /\ key \notin key_pressed
        THEN LET ch == IF key = "left" THEN "Easy" ELSE "Hard"
                 dur == IF ch = "Easy" THEN EasyDuration ELSE HardDuration
             IN  /\ choice_rt' = now - choice_time
                 /\ choice' = ch
                 /\ clicks_req' = IF ch = "Easy" THEN EASY_CLICKS_REQUIRED
                                  ELSE hard_clicks_required
                 /\ duration' = dur
                 /\ stage' = "task"
                 /\ task_start' = now
                 /\ task_end' = now + dur
                 /\ clicks' = 0
                 /\ key_pressed' = {}
                 /\ trial_after' = After(50, "run_task", 0, now)
        ELSE IF stage = "task"
             THEN LET valid_keys == IF choice = "Easy" THEN {"space"}
                                    ELSE {"left", "right"}
                  IN  /\ IF key \in valid_keys /\ key \notin key_pressed
                         THEN /\ key_pressed' = key_pressed \cup {key}
                              /\ clicks' = clicks + 1
                         ELSE UNCHANGED <<key_pressed, clicks>>
                      /\ UNCHANGED <<stage, task_start, task_end, choice,
                                     choice_rt, clicks_req, duration, trial_after>>
             ELSE UNCHANGED <<key_pressed, stage, taskVars, trial_after>>

\* PracticeTrialsFrame.on_key_release.
trial_on_key_release(keysym) ==
    key_pressed' = key_pressed \ {Lower(keysym)}

\* Variant of run_task: the terminating tick already reopens the choice stage.
run_task_reopens_choice ==
    /\ ~destroyed
    /\ trial_after.cb = "run_task"
    /\ now >= trial_after.due
    /\ IF TaskOver
       THEN /\ data' = Append(data, TrialRow)
            /\ stage' = "choice"
            /\ \E iti \in ITI_RANGE[1] .. ITI_RANGE[2] :
                   trial_after' = [cb |-> "next_trial", arg |-> 0, due |-> now + iti]
       ELSE /\ trial_after' = After(50, "run_task", 0, now)
            /\ UNCHANGED <<data, stage>>
    /\ UNCHANGED <<now, tape, appVars, intakeVars, calibration_presses_right,
                   calibration_presses_left, hard_clicks_required,
                   skip_calibration_countdown, instrVars, calVars,
                   trial_index, key_pressed, current, choice_time, taskVars>>

\* PracticeTrialsFrame.run_task, run from its after() timer.
run_task ==
    /\ ~destroyed
    /\ trial_after.cb = "run_task"
    /\ now >= trial_after.due
    /\ IF TaskOver
       THEN /\ data' = Append(data, TrialRow)
            /\ \E iti \in ITI_RANGE[1] .. ITI_RANGE[2] :
                   trial_after' = [cb |-> "next_trial", arg |-> 0, due |-> now + iti]
       ELSE /\ trial_after' = After(50, "run_task", 0, now)
            /\ UNCHANGED data
    /\ UNCHANGED <<now, tape, appVars, intakeVars, calibration_presses_right,
                   calibration_presses_left, hard_clicks_required,
                   skip_calibration_countdown, instrVars, calVars,
                   trial_index, key_pressed, current, stage, choice_time, taskVars>>

\* PracticeTrialsFrame.next_trial, run from its after() timer.
next_trial ==
    /\ ~destroyed
    /\ trial_after.cb = "next_trial"
    /\ now >= trial_after.due
    /\ trial_after' = NoTimer
    /\ trial_index' = trial_index + 1
    /\ key_pressed' = {}
    /\ load_trial(trial_index + 1)
    /\ UNCHANGED <<now, tape, bound_all, destroyed, warnings, intakeVars, ctrlVars,
                   instrVars, calVars, taskVars>>

\* ------------------------------------------------------------- key events

\* A <KeyPress> event: Tk runs the handler bound to "all", if any.  The
\* counters are capped by MaxCount and MaxClicks.
KeyPress(keysym) ==
    /\ ~destroyed
    /\ IF bound_all = "CalibrationFrame"
       THEN /\ count < MaxCount
            /\ cal_on_key_press(keysym)
            /\ UNCHANGED trialVars
       ELSE IF bound_all = "PracticeTrialsFrame"
            THEN /\ stage = "task" => clicks < MaxClicks
                 /\ trial_on_key_press(keysym)
                 /\ UNCHANGED <<count, cal_key_pressed, trial_index, current,
                                choice_time>>
            ELSE UNCHANGED <<count, cal_key_pressed, trialVars>>
    /\ UNCHANGED <<now, tape, appVars, intakeVars, ctrlVars, instrVars,
                   step, test_started, cal_after, left_btn, proceed_btn>>

\* A <KeyRelease> event.
KeyRelease(keysym) ==
    /\ ~destroyed
    /\ IF bound_all = "CalibrationFrame"
       THEN /\ cal_on_key_release(keysym)
            /\ UNCHANGED key_pressed
       ELSE IF bound_all = "PracticeTrialsFrame"
            THEN /\ trial_on_key_release(keysym)
                 /\ UNCHANGED <<count, cal_key_pressed>>
            ELSE UNCHANGED <<count, cal_key_pressed, key_pressed>>
    /\ UNCHANGED <<now, tape, appVars, intakeVars, ctrlVars, instrVars,
                   step, test_started, cal_after, left_btn, proceed_btn,
                   trial_index, current, stage, choice_time, taskVars, trial_after>>

\* ------------------------------------------------------------------ EndFrame

\* The command of the Exit button: controller.destroy; mainloop returns.
Exit ==
    /\ ~destroyed
    /\ shown = "EndFrame"
    /\ destroyed' = TRUE
    /\ UNCHANGED <<now, tape, shown, bound_all, saves, warnings, intakeVars, ctrlVars,
                   instrVars, calVars, trialVars>>

\* --------------------------------------------------------------------- clock

\* Some after() callback is due and would act: the Tk event loop runs it
\* before the clock reading changes.  (The polling callbacks run_task and
\* _run_timer re-arm themselves every 50 ms and act only once their test
\* holds.)
CallbackDue ==
    \/ instr_after.cb # "none" /\ now >= instr_after.due
    \/ cal_after.cb \in {"start_countdown_for_step", "_do_countdown", "start_step"}
          /\ now >= cal_after.due
    \/ cal_after.cb = "_run_timer" /\ now >= cal_after.due /\ now >= cal_after.arg
    \/ trial_after.cb = "next_trial" /\ now >= trial_after.due
    \/ trial_after.cb = "run_task" /\ now >= trial_after.due /\ TaskOver

\* time.time() moves on by one clock unit.
Advance ==
    /\ ~destroyed
    /\ now < MaxTime
    /\ ~CallbackDue
    /\ now' = now + 1
    /\ UNCHANGED <<tape, appVars, intakeVars, ctrlVars, instrVars, calVars, trialVars>>

Next ==
    \/ \E form \in IntakeForms : on_next(form)
    \/ start_countdown
    \/ instr_do_countdown
    \/ show_calibration
    \/ cal_do_countdown
    \/ start_step
    \/ _run_timer
    \/ prepare_for_left_test
    \/ proceed_to_practice
    \/ \E keysym \in Keysyms : KeyPress(keysym)
    \/ \E keysym \in Keysyms : KeyRelease(keysym)
    \/ run_task
    \/ next_trial
    \/ Exit
    \/ Advance

Spec == Init /\ [][Next]_vars

\* time.time() moves on while a task runs, also past MaxTime, up to the
\* task's deadline: the clock does not stop under a running task.
TaskClock ==
    /\ ~destroyed
    /\ now >= MaxTime
    /\ trial_after.cb = "run_task"
    /\ now < task_end
    /\ ~CallbackDue
    /\ now' = now + 1
    /\ UNCHANGED <<tape, appVars, intakeVars, ctrlVars, instrVars, calVars, trialVars>>

\* The intake forms on_next accepts.
CompleteForms ==
    {form \in IntakeForms :
        \A f \in {"subj", "domain", "valence", "hand", "practice"} :
            Strip(form[f]) # ""}

\* The program with an operator who submits only complete intake forms,
\* and the clock of a running task.
NextLive ==
    \/ \E form \in CompleteForms : on_next(form)
    \/ start_countdown
    \/ instr_do_countdown
    \/ show_calibration
    \/ cal_do_countdown
    \/ start_step
    \/ _run_timer
    \/ prepare_for_left_test
    \/ proceed_to_practice
    \/ \E keysym \in Keysyms : KeyPress(keysym)
    \/ \E keysym \in Keysyms : KeyRelease(keysym)
    \/ run_task
    \/ next_trial
    \/ Exit
    \/ Advance
    \/ TaskClock

\* The Tk event loop runs every after() callback that is due, and the
\* clock advances; key events and button clicks may or may not come.
Fairness ==
    /\ WF_vars(instr_do_countdown)
    /\ WF_vars(show_calibration)
    /\ WF_vars(cal_do_countdown)
    /\ WF_vars(start_step)
    /\ WF_vars(_run_timer)
    /\ WF_vars(run_task)
    /\ WF_vars(next_trial)
    /\ WF_vars(Advance)
    /\ WF_vars(TaskClock)

SpecLive == Init /\ [][NextLive]_vars /\ Fairness

\* A key event as Tk delivers it: keysym, edge and time.
TapeEvents == [key : {"Right", "Left"}, edge : {"press", "release"}, t : EventTimes]

\* One key event delivered while the right calibration window is bound:
\* bind_all routes it to on_key_press or on_key_release.
Feed(e) ==
    /\ ~destroyed
    /\ bound_all = "CalibrationFrame"
    /\ step = 1
    /\ Len(tape) < MaxEvents
    /\ tape # << >> => e.t >= tape[Len(tape)].t
    /\ IF e.edge = "press"
       THEN cal_on_key_press(e.key)
       ELSE cal_on_key_release(e.key)
    /\ tape' = Append(tape, e)
    /\ UNCHANGED <<now, appVars, intakeVars, ctrlVars, instrVars, step,
                   test_started, cal_after, left_btn, proceed_btn, trialVars>>

\* The program up to the right calibration window, then the key events of
\* that window with their times, all within the first clock unit.
NextCounter ==
    \/ \E form \in CompleteForms : on_next(form)
    \/ start_countdown
    \/ instr_do_countdown
    \/ show_calibration
    \/ start_step
    \/ \E e \in TapeEvents : Feed(e)

SpecCounter == Init /\ [][NextCounter]_vars

\* The same program with a subject who never lets go of an arrow key: no
\* <KeyRelease> of Left or Right is ever delivered, so every <KeyPress> of
\* an arrow key after its first is the auto-repeat of the held key.
NextHeld ==
    \/ \E form \in IntakeForms : on_next(form)
    \/ start_countdown
    \/ instr_do_countdown
    \/ show_calibration
    \/ cal_do_countdown
    \/ start_step
    \/ _run_timer
    \/ prepare_for_left_test
    \/ proceed_to_practice
    \/ \E keysym \in Keysyms : KeyPress(keysym)
    \/ KeyRelease("space")
    \/ run_task
    \/ next_trial
    \/ Exit
    \/ Advance

SpecHeld == Init /\ [][NextHeld]_vars

\* ===================================================================== claims

\* Position of a frame in Intake -> Instructions -> Calibration -> Trials -> End.
PhaseRank(frame) ==
    CASE frame = "InfoEntryFrame" -> 0
      [] frame = "InstructionsFrame" -> 1
      [] frame = "CalibrationFrame" -> 2
      [] frame = "PracticeTrialsFrame" -> 3
      [] frame = "EndFrame" -> 4

LastRow(rows) == rows[Len(rows)]

\* C1: the phase shown moves Intake -> Instructions -> Calibration -> Trials
\* -> End one step at a time: every step leaves the shown phase as it is or
\* moves it to the next one; none is skipped, none shown again later.
C1_StrictLinearOrder ==
    [][PhaseRank(shown') \in {PhaseRank(shown), PhaseRank(shown) + 1}]_vars

\* C2: while Intake, Instructions or Calibration is shown, the trial engine
\* has accepted no choice, runs no task and has appended no trial record.
C2_TrialEngineIdleBeforeTrials ==
    shown \in {"InfoEntryFrame", "InstructionsFrame", "CalibrationFrame"}
        => /\ stage = "choice"
           /\ trial_after = NoTimer
           /\ data = << >>

\* C3: once the left calibration window has completed, hard_clicks_required
\* is floor(4 * (r + l) / 5) of the two published counts: the one h with
\* 5h <= 4(r + l) < 5(h + 1).
C3_HardClicksIsFloor ==
    proceed_btn =>
        LET n == calibration_presses_right + calibration_presses_left
        IN  /\ 5 * hard_clicks_required <= 4 * n
            /\ 4 * n < 5 * (hard_clicks_required + 1)

\* C3 witness: counts 2 and 1 were measured and 2 presses are required
\* (2.4 truncated).
C3_Witness ==
    /\ proceed_btn
    /\ calibration_presses_right = 2
    /\ calibration_presses_left = 1
    /\ hard_clicks_required = 2

\* C4: a tick of run_task that finds the click count at clicksRequired
\* before task_end ends the task at that tick: it appends the trial's record
\* with task_complete = 1 and starts the inter-trial interval.
C4_FirstToOccur ==
    [][(run_task /\ clicks >= clicks_req /\ now < task_end)
          => /\ Len(data') = Len(data) + 1
             /\ LastRow(data').task_complete = 1
             /\ LastRow(data').trial_num = trial_index + 1
             /\ trial_after'.cb = "next_trial"]_vars

\* C4 witness: an Easy task (clicksRequired > 0) was recorded complete
\* before its deadline.
C4_Witness ==
    /\ data # << >>
    /\ trial_after.cb = "next_trial"
    /\ LastRow(data).n_clicks_required > 0
    /\ LastRow(data).task_complete = 1
    /\ now < task_end

\* A task is running, its deadline has passed and the count is short.
DeadlineMissed ==
    /\ trial_after.cb = "run_task"
    /\ now >= task_end
    /\ clicks < clicks_req

\* C5: once the deadline has passed with the count below clicksRequired,
\* no key event changes the outcome: the count stays short until the task
\* ends, and it ends with task_complete = 0 and clicksExecuted <
\* clicksRequired.
C5_DeadlineDecides ==
    [][DeadlineMissed
          => \/ DeadlineMissed'
             \/ /\ Len(data') = Len(data) + 1
                /\ LastRow(data').task_complete = 0
                /\ LastRow(data').n_clicks_executed
                       < LastRow(data').n_clicks_required]_vars

\* C6: in every record appended, task_complete is 0 or 1, and 1 exactly
\* when clicksExecuted >= clicksRequired.
C6_CompleteIffEnoughClicks ==
    \A i \in 1 .. Len(data) :
        /\ data[i].task_complete \in {0, 1}
        /\ data[i].task_complete = 1
              <=> data[i].n_clicks_executed >= data[i].n_clicks_required

\* C6 witness: a failed trial and a completed trial are both on record.
C6_Witness ==
    /\ \E i \in 1 .. Len(data) :
           data[i].task_complete = 0 /\ data[i].n_clicks_executed = 0
    /\ \E i \in 1 .. Len(data) :
           data[i].task_complete = 1 /\ data[i].n_clicks_executed > 0

\* Trials whose task has ended: those before trial_index, and the current
\* one while its inter-trial interval runs.
TrialsCompleted ==
    trial_index + (IF trial_after.cb = "next_trial" THEN 1 ELSE 0)

\* C7: the record sequence only grows by appending, and after k trials have
\* completed it has length k, its i-th record carrying trial number i and
\* the magnitude and probability of the i-th TrialSpec.
C7_OneRecordPerTrialInOrder ==
    [][/\ \/ data' = data
          \/ /\ Len(data') = Len(data) + 1
             /\ SubSeq(data', 1, Len(data)) = data
       /\ Len(data') = TrialsCompleted'
       /\ Len(data') <= Len(PRACTICE_TRIALS)
       /\ \A i \in 1 .. Len(data') :
              /\ data'[i].trial_num = i
              /\ data'[i].magnitude_hard = PRACTICE_TRIALS[i].magnitude_hard
              /\ data'[i].probability = PRACTICE_TRIALS[i].prob]_vars

\* C7 witness: both trials of the block are on record and the block is over.
C7_Witness ==
    /\ Len(data) = Len(PRACTICE_TRIALS)
    /\ trial_index = Len(PRACTICE_TRIALS)
    /\ data[1].choice # data[2].choice

\* C8: save_data is invoked at most once, with the complete record
\* sequence, exactly when the trial sequence is exhausted: never before the
\* last record is appended, and End is shown only after it.
C8_SavedOnceAfterLastTrial ==
    /\ Len(saves) <= 1
    /\ Len(saves) = 1 <=> trial_index >= Len(PRACTICE_TRIALS)
    /\ Len(saves) = 1
          => /\ Len(data) = Len(PRACTICE_TRIALS)
             /\ saves[1].data = data
             /\ LastRow(data).trial_num = Len(PRACTICE_TRIALS)
    /\ shown = "EndFrame" => Len(saves) = 1

\* C8 witness: the block is over, the data were saved once and End is shown.
C8_Witness ==
    /\ Len(saves) = 1
    /\ Len(saves[1].data) = Len(PRACTICE_TRIALS)
    /\ shown = "EndFrame"

\* What a complete submission of `form` leaves in the session.
Populated(form, subj) ==
    /\ subject' = subj
    /\ domain' = (IF form.domain = "F" THEN "Food" ELSE "Money")
    /\ valence' = (IF form.valence = "G" THEN "Gain" ELSE "Loss")
    /\ handedness' = form.hand
    /\ chose_practice_trials' = (form.practice = "Y")
    /\ shown' = "InstructionsFrame"

\* C9 as stated: a submission with an empty field changes no session field
\* and not the phase; one with all five fields non-empty populates the
\* session and shows Instructions.
C9_NonEmptySubmissionAdvances ==
    [][\A form \in IntakeForms :
          on_next(form)
             => IF \/ form.subj = "" \/ form.domain = "" \/ form.valence = ""
                   \/ form.hand = "" \/ form.practice = ""
                THEN UNCHANGED <<intakeVars, shown>>
                ELSE Populated(form, form.subj)]_vars

\* A field that is empty or holds only white space.
Blank(text) == text \in {"", " "}

\* C9 amended: a submission with a field that is empty or only white space
\* changes no session field and not the phase; one with all five fields
\* non-blank populates the session and shows Instructions.
C9_NonBlankSubmissionAdvances ==
    [][\A form \in IntakeForms :
          on_next(form)
             => IF \/ Blank(form.subj) \/ Blank(form.domain) \/ Blank(form.valence)
                   \/ Blank(form.hand) \/ Blank(form.practice)
                THEN UNCHANGED <<intakeVars, shown, ctrlVars>>
                ELSE Populated(form, form.subj)]_vars

\* C9 witness: an incomplete submission was refused and a later complete
\* one was accepted.
C9_Witness ==
    /\ warnings > 0
    /\ shown = "InstructionsFrame"
    /\ subject = "S1"
    /\ handedness = "Left"

\* C10: when calibration is complete and the Trials phase is shown with the
\* current trial awaiting its choice, key events are forwarded to the trial
\* engine.
C10_KeysReachTrialEngine ==
    (shown = "PracticeTrialsFrame" /\ proceed_btn /\ stage = "choice")
        => bound_all = "PracticeTrialsFrame"

\* The key whose key-down was accepted as the choice of the running trial.
ChoiceKey == IF choice = "Easy" THEN "Left" ELSE "Right"

\* C11: the key-down accepted as the choice is never also counted toward
\* the task: while the choice key is held from the choice into the task
\* (key-downs repeat, no key-up), its key-downs leave clicks unchanged.
\* Stated under SpecHeld, where no arrow key is ever released.
C11_HeldChoiceKeyNotCounted ==
    [][(stage = "task" /\ trial_after.cb = "run_task" /\ KeyPress(ChoiceKey))
          => clicks' = clicks]_vars

\* The key a calibration window counts: 'Right' if self.step == 1 else 'Left'.
CalCorrect == IF step = 1 THEN "Right" ELSE "Left"

\* C12: in a calibration window a key-down of the target key is counted only
\* while the key is not marked down, then marks it down, and only a key-up
\* of the target key clears the mark: a run of key-downs with no key-up in
\* between adds at most 1 to the count.
C12_HeldKeyCountsOnce ==
    [][/\ (bound_all = "CalibrationFrame" /\ bound_all' = "CalibrationFrame"
              /\ count' # count)
          => /\ KeyPress(CalCorrect)
             /\ ~cal_key_pressed
             /\ cal_key_pressed'
             /\ count' = count + 1
       /\ (bound_all = "CalibrationFrame" /\ cal_key_pressed /\ ~cal_key_pressed')
          => KeyRelease(CalCorrect)]_vars

\* C12 witness: in the left window the Left key was counted once, is marked
\* down, and further key-downs are possible.
C12_Witness ==
    /\ bound_all = "CalibrationFrame"
    /\ step = 2
    /\ cal_key_pressed
    /\ count = 1

\* C13: once a counting window has expired no key event changes its count:
\* not the calibration count at or after `end`, not the task's clicks at or
\* after task_end.
C13_ExpiredWindowIgnoresEvents ==
    [][/\ (cal_after.cb = "_run_timer" /\ now >= cal_after.arg) => count' = count
       /\ (trial_after.cb = "run_task" /\ now >= task_end) => clicks' = clicks]_vars

\* The right window has completed and the left countdown has not started.
WaitingForLeft == step = 1 /\ cal_after = NoTimer

\* C14: after the right window the calibration stays put until the Start
\* LEFT Arrow Test command runs: no other step starts the left countdown,
\* and the button exists only while waiting, so the command runs once.
C14_LeftStartsOnOperatorSignalOnly ==
    [][/\ (WaitingForLeft /\ ~WaitingForLeft') => prepare_for_left_test
       /\ left_btn' => WaitingForLeft'
       /\ step' = step \/ (step' = step + 1 /\ cal_after.cb = "start_step")]_vars

\* C14 witness: the left window runs, after the wait and the command.
C14_Witness ==
    /\ step = 2
    /\ bound_all = "CalibrationFrame"
    /\ ~left_btn
    /\ now >= 1

\* C15: calibration_presses_right changes only when the right window
\* completes, calibration_presses_left and hard_clicks_required only when
\* the left window completes; the right window completes first, each
\* completes once, and after the left one nothing of the calibration moves.
C15_CalibrationWrittenOnce ==
    [][/\ calibration_presses_right' # calibration_presses_right
          => step = 1 /\ _run_timer /\ WaitingForLeft'
       /\ (\/ calibration_presses_left' # calibration_presses_left
           \/ hard_clicks_required' # hard_clicks_required)
          => step = 2 /\ _run_timer /\ ~proceed_btn /\ proceed_btn'
       /\ (~proceed_btn /\ proceed_btn') => step = 2 /\ _run_timer
       /\ proceed_btn
          => /\ proceed_btn'
             /\ cal_after' = NoTimer
             /\ step' = 2
             /\ UNCHANGED <<calibration_presses_right, calibration_presses_left,
                            hard_clicks_required>>
       /\ (WaitingForLeft \/ step' = 2) => UNCHANGED calibration_presses_right
               \/ (step = 1 /\ cal_after.cb = "_run_timer")]_vars

\* C15 witness: both counts and the requirement are published.
C15_Witness ==
    /\ proceed_btn
    /\ calibration_presses_right = 1
    /\ calibration_presses_left = 2
    /\ hard_clicks_required = 2

\* C16: a record's clicksRequired is EASY_CLICKS_REQUIRED for Easy and, for
\* Hard, floor(0.8 * (right + left)) of the session's calibration; the Easy
\* duration is shorter than the Hard one.
C16_RequirementFollowsChoice ==
    /\ EasyDuration < HardDuration
    /\ \A i \in 1 .. Len(data) :
          data[i].choice = "Easy"
              => data[i].n_clicks_required = EASY_CLICKS_REQUIRED
    /\ proceed_btn
          => \A i \in 1 .. Len(data) :
                data[i].choice = "Hard"
                    => LET n == calibration_presses_right + calibration_presses_left
                           h == data[i].n_clicks_required
                       IN  5 * h <= 4 * n /\ 4 * n < 5 * (h + 1)

\* The target key is physically down after the first i events of a tape:
\* its latest event is a key-down.
RECURSIVE TargetDown(_, _)
TargetDown(s, i) ==
    IF i = 0 THEN FALSE
    ELSE IF s[i].key = "Right" THEN s[i].edge = "press"
         ELSE TargetDown(s, i - 1)

\* Count-on-release with a minimum interval, over the events of a tape from
\* position i on: a key-up of the target key that was down counts when at least
\* MIN_PRESS_INTERVAL has passed since the last counted one.
RECURSIVE DebounceOnRelease(_, _, _)
DebounceOnRelease(s, i, last) ==
    IF i > Len(s) THEN 0
    ELSE IF s[i].key = "Right" /\ s[i].edge = "release"
            /\ TargetDown(s, i - 1)
            /\ s[i].t - last >= MIN_PRESS_INTERVAL
         THEN 1 + DebounceOnRelease(s, i + 1, s[i].t)
         ELSE DebounceOnRelease(s, i + 1, last)

\* The key-downs of the target key that find the key up.
FreshPresses(s) ==
    {i \in 1 .. Len(s) :
        s[i].key = "Right" /\ s[i].edge = "press" /\ ~TargetDown(s, i - 1)}

C19_CountBeforeExpiry ==
    [][(run_task /\ now >= task_end /\ clicks >= clicks_req)
          => /\ Len(data') = Len(data) + 1
             /\ LastRow(data').task_complete = 1
             /\ LastRow(data').n_clicks_executed = clicks]_vars

\* C19 witness: an Easy task was recorded complete by a tick at or after
\* its deadline.
C19_Witness ==
    /\ data # << >>
    /\ trial_after.cb = "next_trial"
    /\ LastRow(data).n_clicks_required > 0
    /\ LastRow(data).task_complete = 1
    /\ trial_after.due - ITI_RANGE[1] >= task_end

\* C20: the response time is measured from the moment the trial's prompt is
\* shown to the subject: when the Trials frame comes up with a trial
\* awaiting its choice, choice_time is that moment; and every recorded
\* choice_rt is non-negative.
C20_ResponseTimeFromPromptShown ==
    [][/\ (shown # "PracticeTrialsFrame" /\ shown' = "PracticeTrialsFrame"
              /\ stage' = "choice")
          => choice_time' = now'
       /\ \A i \in 1 .. Len(data') : data'[i].choice_rt >= 0]_vars

\* The inter-trial interval: the record is appended and next_trial pending.
InITI == trial_after.cb = "next_trial"

\* Some key event is delivered.
KeyEvent == \E keysym \in Keysyms : KeyPress(keysym) \/ KeyRelease(keysym)

\* C21: a key event during the inter-trial interval changes no record,
\* accepts no choice and leaves the trial and its pending next_trial alone;
\* the next trial's count starts from 0 at its acceptance with no key
\* marked down, so nothing pressed before counts toward it; and no step
\* ever changes a record already appended.
C21_ItiIgnoresKeys ==
    [][/\ (InITI /\ KeyEvent)
          => /\ data' = data
             /\ UNCHANGED <<stage, choice, choice_rt, clicks_req, trial_index,
                            current, choice_time, trial_after, saves, shown>>
       /\ (InITI /\ ~InITI') => next_trial /\ key_pressed' = {}
       /\ (stage = "choice" /\ stage' = "task") => clicks' = 0 /\ key_pressed' = {}
       /\ Len(data') >= Len(data)
       /\ SubSeq(data', 1, Len(data)) = data]_vars

\* C21 witness: during the inter-trial interval a key-down was handled
\* (the finished trial's counter moved) and the record appended shows the
\* count of the terminating tick.
C21_Witness ==
    /\ InITI
    /\ data # << >>
    /\ clicks > LastRow(data).n_clicks_executed
    /\ stage = "task"

\* The run_task tick that is due takes its else branch and computes
\* pct = (self.clicks / self.clicks_req) * 100.
ProgressComputed ==
    /\ ~destroyed
    /\ trial_after.cb = "run_task"
    /\ now >= trial_after.due
    /\ ~TaskOver

\* int(pct), the percentage run_task shows.
Pct == (clicks * 100) \div clicks_req

\* C22: whenever a tick computes the progress fraction, clicks_req is
\* greater than 0 and the fraction lies in [0,1] (0 to 100 percent).
C22_ProgressFractionDefined ==
    ProgressComputed
        => /\ clicks_req > 0
           /\ clicks >= 0
           /\ clicks <= clicks_req
           /\ Pct \in 0 .. 100

\* C22 witness: a tick of a running Easy task computes the fraction.
C22_Witness ==
    /\ ProgressComputed
    /\ choice = "Easy"
    /\ clicks_req = EASY_CLICKS_REQUIRED
    /\ Pct = 0

\* RunningTask: the choice of trial trial_index is accepted and its record
\* is not appended yet.
RunningTask ==
    /\ stage = "task"
    /\ trial_index < Len(PRACTICE_TRIALS)
    /\ Len(data) = trial_index

\* C23: every running task terminates: once a choice is accepted the
\* trial's record is eventually appended and the inter-trial interval
\* begins, whatever key events arrive; and a tick at or after task_end
\* appends it.
C23_RunningTaskTerminates ==
    /\ \A n \in 0 .. Len(PRACTICE_TRIALS) - 1 :
          (RunningTask /\ trial_index = n) ~> (InITI /\ Len(data) = n + 1)
    /\ [][(run_task /\ now >= task_end)
             => InITI' /\ Len(data') = Len(data) + 1]_vars

\* C23 witness: a task that got no key event was ended by its deadline and
\* the inter-trial interval runs.
C23_Witness ==
    /\ InITI
    /\ data # << >>
    /\ LastRow(data).n_clicks_executed = 0
    /\ LastRow(data).task_complete = 0
    /\ now >= task_end

====
